---- MODULE Spec2Model ----
(***************************************************************************)
(* Model of scripts/kicad_footprint_manager.py: the footprint record       *)
(* locator (parse_kicad_pcb), the model enumerator and index-targeted      *)
(* editor (modify_specific_model_by_index), the record-wide editors        *)
(* (add_hide_to_model, remove_hide_from_model, offset_model_coordinates,   *)
(* set_model_position), the splicer (replace_footprint_in_file) and the    *)
(* command-line driver (__main__).                                         *)
(*                                                                         *)
(* A text is a sequence of lexemes: the two delimiters, the three          *)
(* whitespace characters, keywords, quoted strings and numbers.  Every     *)
(* regular expression of the source is translated lexeme by lexeme;        *)
(* offsets are 0-based and slices half-open, as in the source.             *)
(***************************************************************************)
EXTENDS Integers, Sequences, FiniteSets, TLC

\* ------------------------------------------------------------------ bounds

\* Number of command-line invocations run one after the other on the file.
MaxInvocations == 2

\* Largest number of lexemes a text given to the core has lost at its end.
MaxCut == 4

\* Coordinates and deltas are multiples of 0.5 with |value| <= MaxHalves / 2.
MaxHalves == 8

\* ----------------------------------------------------------------- lexemes

LP == "("
RP == ")"
SP == " "
NL == "\n"
TAB == "\t"

\* \s of the regular expressions, over the whitespace the documents use.
IsWs(t) == t \in {SP, NL, TAB}

\* Quoted strings "..." of the document, with the text between the quotes.
QuotedText ==
    [t \in {"\"Reference\"", "\"U1\"", "\"U2\"", "\"m.step\"", "\"n.step\"", "\"R_0603\""} |->
        CASE t = "\"Reference\"" -> "Reference"
          [] t = "\"U1\"" -> "U1"
          [] t = "\"U2\"" -> "U2"
          [] t = "\"m.step\"" -> "m.step"
          [] t = "\"n.step\"" -> "n.step"
          [] OTHER -> "R_0603"]

\* "[^"]+" : a quoted string with at least one character between the quotes.
IsQuoted(t) == t \in DOMAIN QuotedText

Min(a, b) == IF a < b THEN a ELSE b

\* Python slice s[a:b] for 0 <= a, b.
Slice(s, a, b) ==
    IF Min(b, Len(s)) <= a THEN << >> ELSE SubSeq(s, a + 1, Min(b, Len(s)))

\* Python s[a:].
SliceFrom(s, a) == Slice(s, a, Len(s))

\* s[i] with a 0-based index; a lexeme no pattern matches past the end.
At(s, i) == IF i >= 0 /\ i < Len(s) THEN s[i + 1] ELSE "<eot>"

\* Offset of the first non-whitespace lexeme at or after i (greedy \s*).
RECURSIVE SkipWs(_, _)
SkipWs(s, i) == IF IsWs(At(s, i)) THEN SkipWs(s, i + 1) ELSE i

\* Whether s[a:b] holds a line break.
HasNL(s, a, b) == \E k \in a .. (b - 1) : At(s, k) = NL

\* What a pattern piece yields where it does not match, and a search that
\* finds nothing.
NoMatch == -1

\* The least offset of a set of offsets, or NoMatch for the empty set: where
\* a left-to-right search first succeeds.
First(S) == IF S = {} THEN NoMatch ELSE CHOOSE k \in S : \A j \in S : k <= j

\* Where a match of a pattern that starts with \( can start at or after i:
\* every pattern the source searches for starts with that delimiter.
Openings(s, i) == {j \in i .. (Len(s) - 1) : At(s, j) = LP}

\* The pattern pieces.  Each takes the offset i the match has reached (or
\* NoMatch when an earlier piece failed) and yields the offset after the
\* piece, or NoMatch.

\* One literal lexeme t.
Lit(s, i, t) == IF i # NoMatch /\ At(s, i) = t THEN i + 1 ELSE NoMatch

\* \s* followed by a non-whitespace lexeme or nothing.
Ws(s, i) == IF i = NoMatch THEN NoMatch ELSE SkipWs(s, i)

\* \s+ followed by a non-whitespace lexeme or nothing.
WsPlus(s, i) == IF i # NoMatch /\ IsWs(At(s, i)) THEN SkipWs(s, i) ELSE NoMatch

\* \s*\n\s* followed by a non-whitespace lexeme or nothing: the whole
\* whitespace run, which must hold a line break.
WsNlWs(s, i) ==
    IF i # NoMatch /\ HasNL(s, i, SkipWs(s, i)) THEN SkipWs(s, i) ELSE NoMatch

\* "[^"]+"
Quoted(s, i) == IF i # NoMatch /\ IsQuoted(At(s, i)) THEN i + 1 ELSE NoMatch

\* ------------------------------------------------------------------ numbers

\* A coordinate value v stands for v / 2.
Values == (0 - MaxHalves) .. MaxHalves

Abs(v) == IF v < 0 THEN 0 - v ELSE v

\* str(float): "1.5", "-2.0", "0.0".
FormatFloat(v) ==
    (IF v < 0 THEN "-" ELSE "") \o ToString(Abs(v) \div 2) \o "."
        \o (IF Abs(v) % 2 = 1 THEN "5" ELSE "0")

\* A whole number written without a decimal point: "1", "0", "-2".
FormatInt(v) == (IF v < 0 THEN "-" ELSE "") \o ToString(Abs(v) \div 2)

FloatLexemes == {FormatFloat(v) : v \in Values}

IntLexemes == {FormatInt(v) : v \in {w \in Values : w % 2 = 0}}

\* [+-]?\d+\.?\d* : the number lexemes of the documents.
IsNumber(t) == t \in FloatLexemes \cup IntLexemes

\* ([+-]?\d+\.?\d*)
Number(s, i) == IF i # NoMatch /\ IsNumber(At(s, i)) THEN i + 1 ELSE NoMatch

\* float(text).
ParseFloat(t) ==
    IF t \in FloatLexemes
    THEN CHOOSE v \in Values : FormatFloat(v) = t
    ELSE CHOOSE v \in Values : v % 2 = 0 /\ FormatInt(v) = t

\* f"{x} {y} {z}" of three floats.
FormatTriple(x, y, z) ==
    <<FormatFloat(x), SP, FormatFloat(y), SP, FormatFloat(z)>>

\* ------------------------------------------------------- parse_kicad_pcb

\* The offsets at or after start of the delimiters, in increasing order: the
\* only offsets at which the depth-counting loop changes paren_count.
DelimiterOffsets(s, start) ==
    SelectSeq([k \in 1 .. Len(s) |-> k - 1],
              LAMBDA i : i >= start /\ At(s, i) \in {LP, RP})

\* The closing delimiters among those at offsets P, by their place in P, in
\* increasing order: the only iterations at which the loop may break.
ClosingPlaces(s, P) ==
    SelectSeq([j \in 1 .. Len(P) |-> j], LAMBDA j : At(s, P[j]) = RP)

\* paren_count after the loop body has run for the m-th closing delimiter,
\* the C[m]-th delimiter met: the opening ones met minus the closing ones.
ParenCount(C, m) == (C[m] - m) - m

\* The closing delimiter at which the loop breaks: the first that brings
\* paren_count to zero.
BreakIndex(C) == First({m \in 1 .. Len(C) : ParenCount(C, m) = 0})

\* i + 1 at the break, or NoMatch when the range is exhausted first.
BreakEnd(P, C, hit) == IF hit = NoMatch THEN NoMatch ELSE P[C[hit]] + 1

\* The depth-counting loop (lines 64-83 and 289-299) started at offset start:
\* the offset one past the closing delimiter at which it breaks, or NoMatch
\* when the text ends first.
ScanCloseAmong(s, P, C) == BreakEnd(P, C, BreakIndex(C))

ScanCloseIn(s, P) == ScanCloseAmong(s, P, ClosingPlaces(s, P))

ScanClose(s, start) == ScanCloseIn(s, DelimiterOffsets(s, start))

\* \(footprint at offset i.
FootprintAt(s, i) == At(s, i) = LP /\ At(s, i + 1) = "footprint"

\* \(property "Reference"\s+"([^\"]+)" at offset i: the offset after the
\* match, or NoMatch.
ReferenceAt(s, i) ==
    Quoted(s, WsPlus(s, Lit(s, Lit(s, Lit(s, Lit(s, i, LP), "property"), SP),
                            "\"Reference\"")))

\* re.search of the reference property in footprint_raw: the offset after
\* the first match, or NoMatch.
SearchReference(raw) ==
    ReferenceAt(raw,
        First({i \in Openings(raw, 0) : ReferenceAt(raw, i) # NoMatch}))

\* ref_match.group(1), given the offset after the match.
ReferenceGroup(raw, e) == QuotedText[At(raw, e - 1)]

\* Lines 75-82: the mapping after the record footprint_raw at
\* [start_pos, end) has been looked at, r being the result of the search.
Recorded(fps, footprint_raw, start_pos, end, r) ==
    IF r = NoMatch THEN fps
    ELSE (ReferenceGroup(footprint_raw, r) :>
             [full_data |-> footprint_raw, start_pos |-> start_pos,
              end_pos |-> end]) @@ fps

\* Lines 71-82 for the record at [start_pos, end).
RecordedRaw(fps, footprint_raw, start_pos, end) ==
    Recorded(fps, footprint_raw, start_pos, end, SearchReference(footprint_raw))

\* Lines 64-83 for the match at start_pos, end being where the depth scan
\* stopped: a scan that exhausts the text records nothing.
RecordedAt(fps, content, start_pos, end) ==
    IF end = NoMatch THEN fps
    ELSE RecordedRaw(fps, Slice(content, start_pos, end), start_pos, end)

\* The loop over re.finditer(r"\(footprint", content): the mapping after the
\* matches at or after offset i, given the mapping fps built before them.
RECURSIVE ParseFrom(_, _, _)
RECURSIVE ParseMatch(_, _, _)
ParseMatch(content, start_pos, fps) ==
    IF start_pos = NoMatch THEN fps
    ELSE ParseFrom(content, start_pos + 1,
             RecordedAt(fps, content, start_pos, ScanClose(content, start_pos)))

ParseFrom(content, i, fps) ==
    ParseMatch(content,
        First({k \in Openings(content, i) : FootprintAt(content, k)}), fps)

\* parse_kicad_pcb: the mapping from reference to footprint data.
parse_kicad_pcb(content) == ParseFrom(content, 0, << >>)

\* ------------------------------------------------- shared pattern pieces

\* \(model\s+"[^"]+"
ModelHeaderAt(s, i) == Quoted(s, WsPlus(s, Lit(s, Lit(s, i, LP), "model")))

\* \(model\s+"[^"]+"\s*\n\s*
ModelLineAt(s, i) == WsNlWs(s, ModelHeaderAt(s, i))

\* \(\s*offset
OpenOffsetAt(s, i) == Lit(s, Ws(s, Lit(s, i, LP)), "offset")

\* \t*\s*\(\s*hide\s+yes\s*\) after a whitespace run: the \t*\s* is empty.
HideYesAt(s, i) ==
    Lit(s, Ws(s, Lit(s, WsPlus(s, Lit(s, Ws(s, Lit(s, i, LP)), "hide")),
                     "yes")), RP)

\* \(\s*hide\s+yes\s*\)\s*\n\s*
HideLineAt(s, i) == WsNlWs(s, HideYesAt(s, i))

\* The literal text (hide yes).
HideYesText == <<LP, "hide", SP, "yes", RP>>

\* The inserted text had its closing delimiter been left out.
HideInsertUnclosed == <<LP, "hide", SP, "yes", NL, TAB, TAB, TAB>>

\* The text both hide paths insert: "(hide yes)\n\t\t\t".
HideInsert == HideYesText \o <<NL, TAB, TAB, TAB>>

\* hide_pattern (lines 138 and 169) at offset i.
HiddenModelAt(s, i) == HideYesAt(s, ModelLineAt(s, i)) # NoMatch

\* re.search(hide_pattern, footprint_code).
HasHiddenModel(s) == \E i \in 0 .. (Len(s) - 1) : HiddenModelAt(s, i)

\* ([+-]?\d+\.?\d*)\s+ : from the offset of a number to that of the next.
NextNumber(s, a) == WsPlus(s, Number(s, a))

\* The offset of the third number of a triple whose first is at a.
ThirdNumber(s, a) == NextNumber(s, NextNumber(s, a))

\* The offset after the third number.
TripleEnd(s, a) == Number(s, ThirdNumber(s, a))

\* The groups of a coordinate match whose group 1 ends at a and whose last
\* group ends at e: <<offsets of the three numbers, end of the third, end of
\* the match>>, or << >> when the pattern does not match.
CoordGroups(s, a, e) ==
    IF e = NoMatch THEN << >>
    ELSE <<a, NextNumber(s, a), ThirdNumber(s, a), TripleEnd(s, a), e>>

\* ------------------------------------------------------ add_hide_to_model

\* The groups of a match of the pattern of line 131 whose group 1 ends at w:
\* <<end of group 1, end of the match>>, or << >>.
AddHideGroups(s, w) ==
    IF OpenOffsetAt(s, w) = NoMatch THEN << >> ELSE <<w, OpenOffsetAt(s, w)>>

\* pattern of line 131 at offset i.
AddHideMatchAt(s, i) == AddHideGroups(s, ModelLineAt(s, i))

\* re.sub(pattern, replace_func, footprint_code) from offset i on; m is the
\* leftmost match at or after i.
RECURSIVE AddHideFrom(_, _)
RECURSIVE AddHideReplace(_, _, _)
\* replace_func applied to the leftmost match only, as re.sub with count=1
\* would.
AddHideReplaceOnce(s, i, m) ==
    IF m = << >> THEN SliceFrom(s, i)
    ELSE Slice(s, i, m[1]) \o HideInsert \o SliceFrom(s, m[1])

AddHideReplace(s, i, m) ==
    IF m = << >> THEN SliceFrom(s, i)
    ELSE Slice(s, i, m[1]) \o HideInsert \o Slice(s, m[1], m[2])
             \o AddHideFrom(s, m[2])

AddHideFrom(s, i) ==
    AddHideReplace(s, i, AddHideMatchAt(s,
        First({j \in Openings(s, i) : AddHideMatchAt(s, j) # << >>})))

add_hide_to_model(footprint_code) == AddHideFrom(footprint_code, 0)

\* ------------------------------------------------- remove_hide_from_model

\* The groups of a match of the pattern of lines 158-162 whose group 1 ends
\* at w and group 2 at g: <<w, g, end of the match>>, or << >>.
RemoveHideGroups(s, w, g) ==
    IF OpenOffsetAt(s, g) = NoMatch THEN << >>
    ELSE <<w, g, OpenOffsetAt(s, g)>>

\* pattern of lines 158-162 at offset i.
RemoveHideMatchAt(s, i) ==
    RemoveHideGroups(s, ModelLineAt(s, i), HideLineAt(s, ModelLineAt(s, i)))

\* re.sub(pattern, replace_func, footprint_code) from offset i on.
RECURSIVE RemoveHideFrom(_, _)
RECURSIVE RemoveHideReplace(_, _, _)
RemoveHideReplace(s, i, m) ==
    IF m = << >> THEN SliceFrom(s, i)
    ELSE Slice(s, i, m[1]) \o Slice(s, m[2], m[3]) \o RemoveHideFrom(s, m[3])

RemoveHideFrom(s, i) ==
    RemoveHideReplace(s, i, RemoveHideMatchAt(s,
        First({j \in Openings(s, i) : RemoveHideMatchAt(s, j) # << >>})))

remove_hide_from_model(footprint_code) == RemoveHideFrom(footprint_code, 0)

\* --------------------------- offset_model_coordinates, set_model_position

\* \(hide yes\)\s*\n\s*
LiteralHideLine(s, i) ==
    WsNlWs(s, Lit(s, Lit(s, Lit(s, Lit(s, Lit(s, i, LP), "hide"), SP), "yes"),
                  RP))

\* (?:\(hide yes\)\s*\n\s*)? : the line when it is there.  Without it the
\* rest of the pattern, which starts with \(offset, cannot match a text that
\* starts with (hide.
OptionalHideLine(s, i) ==
    IF LiteralHideLine(s, i) # NoMatch THEN LiteralHideLine(s, i) ELSE i

\* Group 1 of the pattern of lines 194-201 and 234-241.
CoordHeadAt(s, i) ==
    WsPlus(s, Lit(s, Lit(s,
        WsNlWs(s, Lit(s, Lit(s, OptionalHideLine(s, ModelLineAt(s, i)), LP),
                      "offset")),
        LP), "xyz"))

\* (\s*\)) after the triple whose first number is at a.
CoordTailAt(s, a) == Lit(s, Ws(s, TripleEnd(s, a)), RP)

\* pattern of lines 194-201 and 234-241 at offset i.
CoordMatchAt(s, i) ==
    CoordGroups(s, CoordHeadAt(s, i), CoordTailAt(s, CoordHeadAt(s, i)))

\* f"{x} {y} {z}" of lines 204-207 and 364-366 for the match m.
ShiftedTriple(s, m, dx, dy, dz) ==
    FormatTriple(ParseFloat(At(s, m[1])) + dx, ParseFloat(At(s, m[2])) + dy,
                 ParseFloat(At(s, m[3])) + dz)

\* re.sub(pattern, replace_func, footprint_code) of line 209 from offset i
\* on.
RECURSIVE OffsetFrom(_, _, _, _, _)
RECURSIVE OffsetReplace(_, _, _, _, _, _)
OffsetReplace(s, i, m, dx, dy, dz) ==
    IF m = << >> THEN SliceFrom(s, i)
    ELSE Slice(s, i, m[1]) \o ShiftedTriple(s, m, dx, dy, dz)
             \o Slice(s, m[4], m[5]) \o OffsetFrom(s, m[5], dx, dy, dz)

OffsetFrom(s, i, dx, dy, dz) ==
    OffsetReplace(s, i, CoordMatchAt(s,
        First({j \in Openings(s, i) : CoordMatchAt(s, j) # << >>})),
        dx, dy, dz)

offset_model_coordinates(footprint_code, dx, dy, dz) ==
    OffsetFrom(footprint_code, 0, dx, dy, dz)

\* re.sub(pattern, replace_func, footprint_code) of line 246 from offset i
\* on.
RECURSIVE PositionFrom(_, _, _, _, _)
RECURSIVE PositionReplace(_, _, _, _, _, _)
PositionReplace(s, i, m, x, y, z) ==
    IF m = << >> THEN SliceFrom(s, i)
    ELSE Slice(s, i, m[1]) \o FormatTriple(x, y, z)
             \o Slice(s, m[4], m[5]) \o PositionFrom(s, m[5], x, y, z)

PositionFrom(s, i, x, y, z) ==
    PositionReplace(s, i, CoordMatchAt(s,
        First({j \in Openings(s, i) : CoordMatchAt(s, j) # << >>})),
        x, y, z)

set_model_position(footprint_code, x, y, z) ==
    PositionFrom(footprint_code, 0, x, y, z)

\* ----------------------------------------- modify_specific_model_by_index

\* re.search(r'\(model\s+"[^"]+"', footprint_code[start:]): the offset of the
\* first model header at or after start, or NoMatch.
SearchModelHeader(s, start) ==
    First({k \in Openings(s, start) : ModelHeaderAt(s, k) # NoMatch})

\* The while loop of lines 279-303, entered with start, the models found so
\* far and the current binding of model_end (NoMatch: not bound yet).  A
\* depth scan that reaches the end of the text leaves model_end as it was:
\* unbound, line 301 raises UnboundLocalError; bound, the next iteration
\* starts where this one started and the loop never ends.
RECURSIVE EnumerateFrom(_, _, _, _)
RECURSIVE EnumerateMatch(_, _, _, _)
RECURSIVE EnumerateScan(_, _, _, _, _)

\* Lines 301-303 after a depth scan that stopped at model_end.
EnumerateNext(s, models, model_end) ==
    IF model_end >= Len(s) THEN [models |-> models, status |-> "ok"]
    ELSE EnumerateFrom(s, model_end, models, model_end)

\* Lines 288-303, end being where the depth scan from actual_start stopped.
EnumerateScan(s, actual_start, end, models, model_end) ==
    IF end # NoMatch
    THEN EnumerateNext(s, Append(models, <<actual_start, end>>), end)
    ELSE IF model_end = NoMatch
    THEN [models |-> models, status |-> "UnboundLocalError"]
    ELSE IF model_end >= Len(s)
    THEN [models |-> models, status |-> "ok"]
    ELSE [models |-> models, status |-> "nonterminating"]

\* Lines 283-303 for the search result actual_start.
EnumerateMatch(s, actual_start, models, model_end) ==
    IF actual_start = NoMatch THEN [models |-> models, status |-> "ok"]
    ELSE EnumerateScan(s, actual_start, ScanClose(s, actual_start), models,
                       model_end)

EnumerateFrom(s, start, models, model_end) ==
    EnumerateMatch(s, SearchModelHeader(s, start), models, model_end)

\* models of lines 275-303: the (start, end) offsets of every model found.
EnumerateModels(footprint_code) ==
    EnumerateFrom(footprint_code, 0, << >>, NoMatch)

\* "(hide yes)" in model_content.
ContainsHideYes(mc) ==
    \E k \in 0 .. (Len(mc) - 5) : Slice(mc, k, k + 5) = HideYesText

\* The replacement r"\1(hide yes)\n\t\t\t" for the match whose group 1 ends
\* at w.
IndexedHideAt(mc, w) ==
    IF w = NoMatch THEN mc
    ELSE Slice(mc, 0, w) \o HideInsert \o SliceFrom(mc, w)

\* re.sub(r'(\(model\s+"[^"]+"\s*\n\s*)', r"\1(hide yes)\n\t\t\t",
\* model_content, count=1).
IndexedHide(mc) ==
    IndexedHideAt(mc, ModelLineAt(mc,
        First({j \in Openings(mc, 0) : ModelLineAt(mc, j) # NoMatch})))

\* The replacement "" for the match that starts at k.
IndexedShowAt(mc, k) ==
    IF k = NoMatch THEN mc
    ELSE Slice(mc, 0, k) \o SliceFrom(mc, HideLineAt(mc, k))

\* re.sub(r"\(\s*hide\s+yes\s*\)\s*\n\s*", "", model_content, count=1).
IndexedShow(mc) ==
    IndexedShowAt(mc,
        First({j \in Openings(mc, 0) : HideLineAt(mc, j) # NoMatch}))

\* updated_model.replace("\n\t\t\t\n", "\n\t\t\t") from offset i on; k is
\* the leftmost occurrence at or after i.
RECURSIVE CleanBlankFrom(_, _)
RECURSIVE CleanBlankReplace(_, _, _)
CleanBlankReplace(s, i, k) ==
    IF k = NoMatch THEN SliceFrom(s, i)
    ELSE Slice(s, i, k) \o <<NL, TAB, TAB, TAB>> \o CleanBlankFrom(s, k + 5)

CleanBlankFrom(s, i) ==
    CleanBlankReplace(s, i,
        First({j \in i .. (Len(s) - 1) :
                 Slice(s, j, j + 5) = <<NL, TAB, TAB, TAB, NL>>}))

\* Group 1 of the pattern of lines 358-360 and 387-389:
\* (\(\s*offset\s*\n\s*\(\s*xyz\s+)
IndexedCoordHeadAt(s, i) ==
    WsPlus(s, Lit(s, Ws(s, Lit(s, WsNlWs(s, OpenOffsetAt(s, i)), LP)), "xyz"))

\* (\s*\)\s*\)) after the triple whose first number is at a.
IndexedCoordTailAt(s, a) ==
    Lit(s, Ws(s, Lit(s, Ws(s, TripleEnd(s, a)), RP)), RP)

\* The pattern of lines 358-360 and 387-389 at offset i.
IndexedCoordMatchAt(s, i) ==
    CoordGroups(s, IndexedCoordHeadAt(s, i),
                IndexedCoordTailAt(s, IndexedCoordHeadAt(s, i)))

\* re.sub of lines 357-368 from offset i on.
RECURSIVE IndexedOffsetFrom(_, _, _, _, _)
RECURSIVE IndexedOffsetReplace(_, _, _, _, _, _)
IndexedOffsetReplace(s, i, m, dx, dy, dz) ==
    IF m = << >> THEN SliceFrom(s, i)
    ELSE Slice(s, i, m[1]) \o ShiftedTriple(s, m, dx, dy, dz)
             \o Slice(s, m[4], m[5]) \o IndexedOffsetFrom(s, m[5], dx, dy, dz)

IndexedOffsetFrom(s, i, dx, dy, dz) ==
    IndexedOffsetReplace(s, i, IndexedCoordMatchAt(s,
        First({j \in Openings(s, i) : IndexedCoordMatchAt(s, j) # << >>})),
        dx, dy, dz)

\* re.sub of lines 386-393 from offset i on.
RECURSIVE IndexedPositionFrom(_, _, _, _, _)
RECURSIVE IndexedPositionReplace(_, _, _, _, _, _)
IndexedPositionReplace(s, i, m, x, y, z) ==
    IF m = << >> THEN SliceFrom(s, i)
    ELSE Slice(s, i, m[1]) \o FormatTriple(x, y, z)
             \o Slice(s, m[4], m[5]) \o IndexedPositionFrom(s, m[5], x, y, z)

IndexedPositionFrom(s, i, x, y, z) ==
    IndexedPositionReplace(s, i, IndexedCoordMatchAt(s,
        First({j \in Openings(s, i) : IndexedCoordMatchAt(s, j) # << >>})),
        x, y, z)

\* updated_model of lines 321-407 for the selected model's text.
UpdatedModel(model_content, operation, vals) ==
    CASE operation = "hide" ->
            IF ~ContainsHideYes(model_content)
            THEN IndexedHide(model_content) ELSE model_content
      [] operation = "show" ->
            IF ContainsHideYes(model_content)
            THEN CleanBlankFrom(IndexedShow(model_content), 0)
            ELSE model_content
      [] operation = "offset" ->
            IndexedOffsetFrom(model_content, 0, vals[1], vals[2], vals[3])
      [] operation = "position" ->
            IndexedPositionFrom(model_content, 0, vals[1], vals[2], vals[3])
      [] OTHER -> model_content

\* Whether the index passes the range check of line 310.
IndexValid(models, model_index) ==
    ~(model_index < 0 \/ model_index >= Len(models))

\* modified_code of lines 317-407 for the selected model (its start and end
\* offsets).
ModifiedCode(footprint_code, model, operation, vals) ==
    Slice(footprint_code, 0, model[1])
        \o UpdatedModel(Slice(footprint_code, model[1], model[2]), operation,
                        vals)
        \o SliceFrom(footprint_code, model[2])

\* Lines 305-409 for the models the loop found.
ModifiedIn(footprint_code, models, model_index, operation, vals) ==
    IF models = << >> THEN footprint_code
    ELSE IF ~IndexValid(models, model_index) THEN footprint_code
    ELSE ModifiedCode(footprint_code, models[model_index + 1], operation, vals)

\* modify_specific_model_by_index, when the enumeration loop ends normally:
\* the returned footprint code.
modify_specific_model_by_index(footprint_code, model_index, operation, vals) ==
    ModifiedIn(footprint_code, EnumerateModels(footprint_code).models,
               model_index, operation, vals)

\* What lines 321-407 print for the selected model's text.
ModelMessages(model_content, operation, vals) ==
    CASE operation = "hide" ->
            IF ~ContainsHideYes(model_content) THEN {"Added (hide yes)"}
            ELSE {"already has (hide yes)"}
      [] operation = "show" ->
            IF ContainsHideYes(model_content) THEN {"Removed (hide yes)"}
            ELSE {"does not have (hide yes)"}
      [] operation = "offset" ->
            IF UpdatedModel(model_content, operation, vals) # model_content
            THEN {"Applied offset"} ELSE {"no coordinates found"}
      [] operation = "position" ->
            IF UpdatedModel(model_content, operation, vals) # model_content
            THEN {"Set position"} ELSE {"no coordinates found"}
      [] OTHER -> {}

\* What lines 305-407 print for the models the loop found.
MessagesIn(footprint_code, models, model_index, operation, vals) ==
    IF models = << >> THEN {"No 3D models found"}
    ELSE IF ~IndexValid(models, model_index) THEN {"Model index out of range"}
    ELSE ModelMessages(Slice(footprint_code, models[model_index + 1][1],
                             models[model_index + 1][2]), operation, vals)

\* What modify_specific_model_by_index prints.
IndexedMessages(footprint_code, model_index, operation, vals) ==
    MessagesIn(footprint_code, EnumerateModels(footprint_code).models,
               model_index, operation, vals)


\* ------------------------------------------------ the record-wide editors

\* The editor __main__ calls when no --idx is given (lines 506, 529, 559,
\* 594).
ImplicitEdit(footprint_code, operation, vals) ==
    CASE operation = "hide" -> add_hide_to_model(footprint_code)
      [] operation = "show" -> remove_hide_from_model(footprint_code)
      [] operation = "offset" ->
            offset_model_coordinates(footprint_code, vals[1], vals[2], vals[3])
      [] operation = "position" ->
            set_model_position(footprint_code, vals[1], vals[2], vals[3])
      [] OTHER -> footprint_code

\* What the record-wide editors print (lines 139-143, 170-174, 211-214,
\* 248-251).
ImplicitMessages(footprint_code, operation, vals) ==
    CASE operation = "hide" ->
            IF HasHiddenModel(footprint_code)
            THEN {"Warning: already has (hide yes)"} ELSE {}
      [] operation = "show" ->
            IF ~HasHiddenModel(footprint_code)
            THEN {"Note: does not have (hide yes)"} ELSE {}
      [] operation = "offset" ->
            IF ImplicitEdit(footprint_code, operation, vals) = footprint_code
            THEN {"Warning: No offset section found"} ELSE {"Applied offset"}
      [] operation = "position" ->
            IF ImplicitEdit(footprint_code, operation, vals) = footprint_code
            THEN {"Warning: No offset section found"} ELSE {"Set position"}
      [] OTHER -> {}

\* ----------------------------------------------- replace_footprint_in_file

\* new_content of line 112, for the footprint_info looked up at line 110.
Spliced(content, footprint_info, new_footprint_code) ==
    Slice(content, 0, footprint_info.start_pos) \o new_footprint_code
        \o SliceFrom(content, footprint_info.end_pos)

\* The splice had end_pos been the offset of the closing delimiter instead
\* of the offset after it.
replace_footprint_keeping_close(content, reference, new_footprint_code) ==
    Slice(content, 0, parse_kicad_pcb(content)[reference].start_pos)
        \o new_footprint_code
        \o SliceFrom(content, parse_kicad_pcb(content)[reference].end_pos - 1)

\* new_content of line 112, from the content and mapping read at line 102.
replace_footprint_in_file(content, reference, new_footprint_code) ==
    Spliced(content, parse_kicad_pcb(content)[reference], new_footprint_code)

\* ----------------------------------------------------------- the documents

\* "\n" followed by n tabs.
Indent(n) == <<NL>> \o [k \in 1 .. n |-> TAB]

\* (xyz a b c) with the three numbers as written.
Xyz(a, b, c) == <<LP, "xyz", SP, a, SP, b, SP, c, RP>>

\* The (offset ...) block as KiCad writes it, inside a model.
OffsetBlock(a, b, c) ==
    <<LP, "offset">> \o Indent(4) \o Xyz(a, b, c) \o Indent(3) \o <<RP>>

\* The (scale ...) block as KiCad writes it, inside a model.
ScaleBlock == <<LP, "scale">> \o Indent(4) \o Xyz("1", "1", "1") \o Indent(3) \o <<RP>>

\* (model "path" <head> <body> <tail>): head is the text between the path and
\* the first sub-block, tail the text before the closing delimiter.
ModelText(path, head, body, tail) ==
    <<LP, "model", SP, path>> \o head \o body \o tail \o <<RP>>

HiddenLine == HideYesText \o Indent(3)

\* The models the documents are built from.
Visible      == ModelText("\"m.step\"", Indent(3), OffsetBlock("1.5", "-2.0", "0.0"), Indent(2))
VisibleN     == ModelText("\"n.step\"", Indent(3), OffsetBlock("0.0", "0.5", "1.0"), Indent(2))
IntCoords    == ModelText("\"m.step\"", Indent(3), OffsetBlock("1", "0", "-2"), Indent(2))
Hidden       == ModelText("\"n.step\"", Indent(3), HiddenLine \o OffsetBlock("0.5", "0.0", "0.0"), Indent(2))
TwiceHidden  == ModelText("\"n.step\"", Indent(3), HiddenLine \o HiddenLine \o OffsetBlock("0.5", "0.0", "0.0"), Indent(2))
ScaleOnly    == ModelText("\"m.step\"", Indent(3), ScaleBlock, Indent(2))
OneLine      == ModelText("\"n.step\"", <<SP>>, <<LP, "offset", SP>> \o Xyz("1.5", "-2.0", "0.0") \o <<RP>>, << >>)
BlankLine    == ModelText("\"m.step\"", Indent(3), OffsetBlock("1.5", "-2.0", "0.0"), Indent(3) \o Indent(2))

\* The model lists of the edited footprint.
ModelLists ==
    { << >>, <<Visible>>, <<IntCoords>>, <<Hidden>>, <<TwiceHidden>>,
      <<ScaleOnly>>, <<BlankLine>>, <<Visible, VisibleN>>, <<Visible, Hidden>>,
      <<Visible, OneLine>> }

RECURSIVE Lines(_)
\* The models of a list, each on a line of its own.
Lines(ms) == IF ms = << >> THEN << >> ELSE Indent(2) \o Head(ms) \o Lines(Tail(ms))

\* A footprint record with its reference property (when ref is given) and
\* its models.
Footprint(ref, ms) ==
    <<LP, "footprint", SP, "\"R_0603\"">>
        \o (IF ref = "" THEN << >>
            ELSE Indent(2) \o <<LP, "property", SP, "\"Reference\"", SP, ref, RP>>)
        \o Lines(ms) \o Indent(1) \o <<RP>>

\* A board file: a footprint without a reference, footprint U1 with the
\* given models, footprint U2.
Document(ms) ==
    <<LP, "kicad_pcb">>
        \o Indent(1) \o Footprint("", << >>)
        \o Indent(1) \o Footprint("\"U1\"", ms)
        \o Indent(1) \o Footprint("\"U2\"", <<VisibleN>>)
        \o <<NL, RP>>

Documents == {Document(ms) : ms \in ModelLists}

\* ------------------------------------------------------- the command line

\* The operations whose branch of __main__ writes the file.
Mutating == {"hide", "show", "offset", "position"}

\* --code, one of the mutating flags, or no flag at all (the listing).
Operations == {"code", "list"} \cup Mutating

\* The reference argument: two footprints of the documents and one absent.
References == {"U1", "U2", "Q9"}

\* --idx: absent (<< >>) or <<N>>.
Indexes == {<< >>, <<-1>>, <<0>>, <<1>>, <<2>>}

\* --offset DX DY DZ and --position X Y Z, in halves.
Triples == {<<0, 0, 0>>, <<1, 1, 0>>}

\* The argument vectors: --code and the listing take no index and no
\* numbers, --hide and --show no numbers.  The indexes and the zero triple
\* are tried on U1 only.
Arguments ==
    {a \in [op : Operations, reference : References, idx : Indexes,
            vals : Triples \cup {<< >>}] :
        /\ a.op \in {"code", "list"} => a.idx = << >>
        /\ a.op \in {"offset", "position"} <=> a.vals # << >>
        /\ a.op = "list" => a.reference = "U1"
        /\ a.reference # "U1" => a.idx = << >> /\ a.vals # <<0, 0, 0>>}

\* ------------------------------------------------------------------- state

VARIABLES
    file,                \* the text of the .kicad_pcb file on disk
    pc,                  \* where the current invocation stands
    args,                \* its argument vector
    footprints,          \* the mapping __main__ got from parse_kicad_pcb
    original_footprint,  \* footprints[reference]["full_data"]
    modified_footprint,  \* what the editor returned
    reads,               \* file.read() calls of the invocation so far
    writes,              \* file.write() calls of the invocation so far
    out,                 \* what the invocation has printed
    file0,               \* the text of the file when the invocation started
    invocations          \* invocations started so far

vars == <<file, pc, args, footprints, original_footprint, modified_footprint,
          reads, writes, out, file0, invocations>>

NoArgs == [op |-> "list", reference |-> "U1", idx |-> << >>, vals |-> << >>]

Init ==
    /\ file \in Documents
    /\ pc = "idle"
    /\ args = NoArgs
    /\ footprints = << >>
    /\ original_footprint = << >>
    /\ modified_footprint = << >>
    /\ reads = 0
    /\ writes = 0
    /\ out = {}
    /\ file0 = file
    /\ invocations = 0

\* Lines 463-498 (and their copies 516-521, 539-544, 574-579, 605-609): the
\* arguments are parsed, the branch of the operation reads and indexes the
\* file, and a mutating branch looks the reference up.
Started(a, fps) ==
    /\ invocations' = invocations + 1
    /\ args' = a
    /\ file0' = file
    /\ reads' = 1
    /\ writes' = 0
    /\ footprints' = fps
    /\ modified_footprint' = << >>
    /\ IF a.op = "code"
       THEN /\ out' = IF a.reference \in DOMAIN fps
                      THEN {"Complete footprint code"}
                      ELSE {"No footprint found", "Available references"}
            /\ original_footprint' = << >>
            /\ pc' = "done"
       ELSE IF a.op = "list"
       THEN /\ out' = {"Available references", "Usage"}
            /\ original_footprint' = << >>
            /\ pc' = "done"
       ELSE IF a.reference \notin DOMAIN fps
       THEN /\ out' = {"Error: No footprint found"}
            /\ original_footprint' = << >>
            /\ pc' = "exit 1"
       ELSE /\ out' = {}
            /\ original_footprint' = fps[a.reference].full_data
            /\ pc' = "selected"
    /\ UNCHANGED file

\* An invocation starts, with any argument vector, on the file as it is: fps
\* is what parse_kicad_pcb returns for it.
Invoke ==
    /\ pc = "idle"
    /\ invocations < MaxInvocations
    /\ \E fps \in {parse_kicad_pcb(file)} : \E a \in Arguments : Started(a, fps)

\* Lines 500-506 (and 523-529, 546-564, 581-599): the editor runs, by index
\* or record-wide.  An enumeration loop that raises ends the invocation with
\* a traceback; one that never ends leaves it where it is.
Modify ==
    /\ pc = "selected"
    /\ IF args.idx = << >>
       THEN /\ modified_footprint' =
                    ImplicitEdit(original_footprint, args.op, args.vals)
            /\ out' = out \cup
                    ImplicitMessages(original_footprint, args.op, args.vals)
            /\ pc' = "modified"
       ELSE IF EnumerateModels(original_footprint).status = "ok"
       THEN /\ modified_footprint' =
                    modify_specific_model_by_index(original_footprint,
                        args.idx[1], args.op, args.vals)
            /\ out' = out \cup
                    IndexedMessages(original_footprint, args.idx[1],
                        args.op, args.vals)
            /\ pc' = "modified"
       ELSE /\ modified_footprint' = << >>
            /\ out' = out
            /\ pc' = EnumerateModels(original_footprint).status
    /\ UNCHANGED <<file, args, footprints, original_footprint, reads, writes,
                   file0, invocations>>

\* Lines 508-510 (and 531-533, 566-568, 601-603): replace_footprint_in_file
\* reads and indexes the file again, splices the new record in and writes.
Replace ==
    /\ pc = "modified"
    /\ reads' = reads + 1
    /\ IF args.reference \notin DOMAIN parse_kicad_pcb(file)
       THEN /\ out' = out \cup {"Error: No footprint found"}
            /\ UNCHANGED <<file, writes>>
       ELSE /\ file' = replace_footprint_in_file(file, args.reference,
                                                 modified_footprint)
            /\ writes' = writes + 1
            /\ out' = out \cup {"Successfully replaced footprint"}
    /\ pc' = "done"
    /\ UNCHANGED <<args, footprints, original_footprint, modified_footprint,
                   file0, invocations>>

\* The process ends (the end of __main__, sys.exit(1) or a traceback) and
\* its memory with it; the next invocation may start.
Exit ==
    /\ pc \in {"done", "exit 1", "UnboundLocalError"}
    /\ pc' = "idle"
    /\ args' = NoArgs
    /\ footprints' = << >>
    /\ original_footprint' = << >>
    /\ modified_footprint' = << >>
    /\ reads' = 0
    /\ writes' = 0
    /\ out' = {}
    /\ file0' = file
    /\ UNCHANGED <<file, invocations>>

Next ==
    \/ Invoke
    \/ Modify
    \/ Replace
    \/ Exit

Spec == Init /\ [][Next]_vars

\* ----------------------------------------------- the core called directly

\* A text that was cut short: all but the last k lexemes of text.
Cut(text, k) == Slice(text, 0, Len(text) - k)

\* The model lists of the records that are cut short.
CoreModelLists == {<< >>, <<Visible>>, <<Hidden>>, <<Visible, VisibleN>>}

\* Board files whose end is missing: from the fourth lexeme lost on, the
\* record of U2 is never closed.
TruncatedDocuments ==
    {Cut(Document(ms), k) : ms \in CoreModelLists, k \in 0 .. MaxCut}

\* Record texts whose end is missing: from the fourth lexeme lost on, the
\* last model of the record is never closed.
TruncatedRecords ==
    {Cut(Footprint("\"U1\"", ms), k) : ms \in CoreModelLists,
                                        k \in 0 .. MaxCut}

\* The arguments modify_specific_model_by_index is called with.
CoreArguments ==
    {a \in Arguments : /\ a.reference = "U1"
                       /\ a.op \in {"hide", "show"}
                       /\ a.idx \in {<<0>>, <<1>>}}

\* A caller of the two functions that use the depth scan, with a file that
\* may have lost its end.
CoreInit ==
    /\ file \in TruncatedDocuments
    /\ pc = "idle"
    /\ args = NoArgs
    /\ footprints = << >>
    /\ original_footprint = << >>
    /\ modified_footprint = << >>
    /\ reads = 0
    /\ writes = 0
    /\ out = {}
    /\ file0 = file
    /\ invocations = 0

\* parse_kicad_pcb(file_path) is called (lines 56-85) and returns.
CallParse ==
    /\ pc = "idle"
    /\ footprints' = parse_kicad_pcb(file)
    /\ reads' = 1
    /\ pc' = "parsed"
    /\ UNCHANGED <<file, args, original_footprint, modified_footprint, writes,
                   out, file0, invocations>>

\* modify_specific_model_by_index is called (line 256) with a record text
\* that may have lost its end; its body is the action Modify.
CallModify ==
    /\ pc = "idle"
    /\ \E text \in TruncatedRecords : original_footprint' = text
    /\ \E a \in CoreArguments : args' = a
    /\ pc' = "selected"
    /\ UNCHANGED <<file, footprints, modified_footprint, reads, writes, out,
                   file0, invocations>>

\* The call returns, or its exception reaches the caller.  A loop that never
\* ends returns nothing.
CoreReturn ==
    /\ pc \in {"parsed", "modified", "UnboundLocalError"}
    /\ pc' = "idle"
    /\ args' = NoArgs
    /\ footprints' = << >>
    /\ original_footprint' = << >>
    /\ modified_footprint' = << >>
    /\ reads' = 0
    /\ out' = {}
    /\ UNCHANGED <<file, writes, file0, invocations>>

CoreNext ==
    \/ CallParse
    \/ CallModify
    \/ Modify
    \/ CoreReturn

CoreSpec == CoreInit /\ [][CoreNext]_vars

\* ------------------------------------------------------------- properties

\* The invocation carries --idx.
Indexed == args.idx # << >>

\* The invocation is one that edits the selected record.
Editing == pc \in {"modified", "done"} /\ args.op \in Mutating
               /\ original_footprint # << >>

\* The models the enumerator finds in a record text.
ModelsOf(text) == EnumerateModels(text).models

\* The text of the k-th enumerated model (k from 1) of a record text.
ModelTextOf(text, k) == Slice(text, ModelsOf(text)[k][1], ModelsOf(text)[k][2])

\* The editor the invocation selected, applied to text with operation op.
EditBy(text, op) ==
    IF Indexed
    THEN modify_specific_model_by_index(text, args.idx[1], op, args.vals)
    ELSE ImplicitEdit(text, op, args.vals)

\* The depth of text first returns to zero exactly at its last lexeme.
Balanced(text) == ScanClose(text, 0) = Len(text)

\* The three numbers, as written, of the coordinate match m of text s.
Written(s, m) == <<At(s, m[1]), At(s, m[2]), At(s, m[3])>>

\* C1: a mutating invocation whose --idx is negative or not below the number
\* of models enumerated in the selected record reports the index as an
\* error, leaves the file as it was without writing it, and does not report
\* a successful replacement.
C1_OutOfRangeRejected ==
    (Editing /\ pc = "done" /\ Indexed
       /\ ~IndexValid(ModelsOf(original_footprint), args.idx[1]))
    => /\ out \cap {"Model index out of range", "No 3D models found"} # {}
       /\ modified_footprint = original_footprint
       /\ file = file0
       /\ writes = 0
       /\ "Successfully replaced footprint" \notin out

\* C2: when a mutating invocation on reference r has written the file, the
\* file is text[:start] + replacement + text[end:] for the text the
\* invocation started from and the span [start, end) recorded for r, and
\* every other indexed record still has the text it had.
C2_SpliceFrame ==
    (Editing /\ pc = "done" /\ writes > 0)
    => /\ file = Slice(file0, 0, footprints[args.reference].start_pos)
                    \o modified_footprint
                    \o SliceFrom(file0, footprints[args.reference].end_pos)
       /\ \A r \in DOMAIN footprints \ {args.reference} :
             /\ r \in DOMAIN parse_kicad_pcb(file)
             /\ parse_kicad_pcb(file)[r].full_data = footprints[r].full_data

\* C2 witness: a write that changed the length of U1's record, so that the
\* record after it moved.
C2_Witness ==
    /\ Editing /\ pc = "done" /\ writes > 0
    /\ args.reference = "U1"
    /\ Len(file) # Len(file0)
    /\ "U2" \in DOMAIN footprints

\* C3: whatever editor ran, and on whatever earlier edits the file carries,
\* a delimiter-balanced record text is edited into a delimiter-balanced
\* record text.
C3_BalancePreserved ==
    (pc = "modified" /\ Balanced(original_footprint))
    => Balanced(modified_footprint)

\* C3 witness: the second edit of a run, on a file the first edit changed,
\* changes the record.
C3_Witness ==
    /\ pc = "modified"
    /\ invocations = 2
    /\ file \notin Documents
    /\ Balanced(original_footprint)
    /\ modified_footprint # original_footprint

\* The index-targeted editor ran on a model the record has.
IndexedEdit ==
    /\ pc = "modified" /\ Indexed
    /\ IndexValid(ModelsOf(original_footprint), args.idx[1])

\* C4: on a record with two or more models, an index-targeted hide with a
\* valid index i leaves the record with as many models, every other model
\* and all text outside model i as they were, and model i with the hidden
\* marker.
C4_IndexedHideFrame ==
    (IndexedEdit /\ args.op = "hide" /\ Len(ModelsOf(original_footprint)) >= 2)
    => /\ Len(ModelsOf(modified_footprint)) = Len(ModelsOf(original_footprint))
       /\ \A k \in 1 .. Len(ModelsOf(original_footprint)) :
             k # args.idx[1] + 1 =>
                 ModelTextOf(modified_footprint, k) =
                     ModelTextOf(original_footprint, k)
       /\ ContainsHideYes(ModelTextOf(modified_footprint, args.idx[1] + 1))
       /\ Slice(modified_footprint, 0,
                ModelsOf(modified_footprint)[args.idx[1] + 1][1])
            = Slice(original_footprint, 0,
                    ModelsOf(original_footprint)[args.idx[1] + 1][1])
       /\ SliceFrom(modified_footprint,
                    ModelsOf(modified_footprint)[args.idx[1] + 1][2])
            = SliceFrom(original_footprint,
                        ModelsOf(original_footprint)[args.idx[1] + 1][2])

\* C5: hide and show are idempotent on both paths: the editor that produced
\* the record text, run again on it, returns it unchanged; and the
\* index-targeted hide of a model that has the marker, or show of one that
\* has not, returns the record unchanged.
C5_Idempotent ==
    /\ (pc = "modified" /\ args.op \in {"hide", "show"})
       => EditBy(modified_footprint, args.op) = modified_footprint
    /\ (IndexedEdit /\ args.op \in {"hide", "show"}
          /\ (args.op = "hide") =
                ContainsHideYes(ModelTextOf(original_footprint,
                                            args.idx[1] + 1)))
       => modified_footprint = original_footprint

\* C6: on both paths, show applied to the result of hide gives back, lexeme
\* for lexeme, a record that had no hidden marker.
C6_ShowUndoesHide ==
    (pc = "modified" /\ args.op = "hide"
       /\ ~ContainsHideYes(original_footprint))
    => EditBy(modified_footprint, "show") = original_footprint

\* The text holds a coordinate field: an offset block with three numbers.
HasCoordinates(text) ==
    \E j \in 0 .. (Len(text) - 1) : IndexedCoordMatchAt(text, j) # << >>

\* C7: on both paths, an offset of (0, 0, 0) returns a text with a
\* coordinate field exactly as it was, however the numbers are written.
C7_ZeroOffsetIdentity ==
    (pc = "modified" /\ args.op = "offset" /\ args.vals = <<0, 0, 0>>
       /\ HasCoordinates(original_footprint))
    => modified_footprint = original_footprint

\* C8: on a record with exactly one model, the record-wide editor and the
\* index-targeted editor with index 0 return the same text: whichever of
\* the two ran, its result is also the result of the other.
C8_PathsAgree ==
    (pc = "modified" /\ Len(ModelsOf(original_footprint)) = 1
       /\ args.idx \in {<< >>, <<0>>})
    => /\ modified_footprint =
              ImplicitEdit(original_footprint, args.op, args.vals)
       /\ modified_footprint =
              modify_specific_model_by_index(original_footprint, 0, args.op,
                                             args.vals)

\* C9: an invocation that has started has read the file exactly once and
\* written it at most once, wherever it stands; so no second read comes
\* between the edit and the write.
C9_ReadOnceWriteAtMostOnce ==
    pc # "idle" => (reads = 1 /\ writes <= 1)

\* The field pattern of the record-wide editor of the invocation matches the
\* model that starts at offset a of s.
FieldMatches(s, a) ==
    CASE args.op = "hide" -> AddHideMatchAt(s, a) # << >>
      [] args.op = "show" -> RemoveHideMatchAt(s, a) # << >>
      [] OTHER -> CoordMatchAt(s, a) # << >>

\* The model that starts at offset b of t is the model at offset a of s as
\* the operation of the invocation leaves it: with the marker, without it,
\* or with the coordinates shifted or set.
EditedFrom(s, a, t, b) ==
    CASE args.op = "hide" -> HiddenModelAt(t, b)
      [] args.op = "show" -> ~HiddenModelAt(t, b) /\ AddHideMatchAt(t, b) # << >>
      [] args.op = "offset" ->
            /\ CoordMatchAt(t, b) # << >>
            /\ Written(t, CoordMatchAt(t, b)) =
                  <<FormatFloat(ParseFloat(At(s, CoordMatchAt(s, a)[1])) + args.vals[1]),
                    FormatFloat(ParseFloat(At(s, CoordMatchAt(s, a)[2])) + args.vals[2]),
                    FormatFloat(ParseFloat(At(s, CoordMatchAt(s, a)[3])) + args.vals[3])>>
      [] OTHER ->
            /\ CoordMatchAt(t, b) # << >>
            /\ Written(t, CoordMatchAt(t, b)) =
                  <<FormatFloat(args.vals[1]), FormatFloat(args.vals[2]),
                    FormatFloat(args.vals[3])>>

\* The models of the selected record the field pattern matches.
MatchingModels ==
    {k \in 1 .. Len(ModelsOf(original_footprint)) :
        FieldMatches(original_footprint, ModelsOf(original_footprint)[k][1])}

\* C10: without --idx, every model of the selected record that the field
\* pattern of the operation matches is edited in the same invocation, and
\* the record keeps its models.
C10_EveryMatchingModelEdited ==
    (pc = "modified" /\ ~Indexed)
    => /\ Len(ModelsOf(modified_footprint)) = Len(ModelsOf(original_footprint))
       /\ \A k \in MatchingModels :
             EditedFrom(original_footprint,
                        ModelsOf(original_footprint)[k][1],
                        modified_footprint,
                        ModelsOf(modified_footprint)[k][1])

\* C10 witness: a record-wide edit of a record two of whose models match.
C10_Witness ==
    /\ pc = "modified" /\ ~Indexed
    /\ Cardinality(MatchingModels) >= 2
    /\ modified_footprint # original_footprint

\* C11: both users of the depth scan take a scan that reaches the end of the
\* text before the depth is back at zero as no match.  On any text, also one
\* whose record or model block is never closed: the index has no entry for
\* such a record, the enumeration loop ends, it lists no such model, and no
\* exception reaches the caller.
C11_UnclosedIsNoMatch ==
    /\ pc \notin {"UnboundLocalError", "nonterminating"}
    /\ pc = "parsed" =>
          \A r \in DOMAIN footprints :
              /\ Balanced(footprints[r].full_data)
              /\ footprints[r].end_pos <= Len(file)
    /\ pc = "modified" =>
          \A k \in 1 .. Len(ModelsOf(original_footprint)) :
              Balanced(ModelTextOf(original_footprint, k))

====
